---- MODULE Spec2Model ----
(***************************************************************************)
(* Model of prd_score_uploader.py: the rating-to-score conversion          *)
(* (convert_to_score), the report aggregation of generate_pdf and the      *)
(* upload-to-report cycle of the Streamlit script.                         *)
(*                                                                         *)
(* Text is a sequence of one-character strings, so that strip, lower,      *)
(* title, the formatting of numbers and the regular-expression extraction  *)
(* of _avg_numeric_from_display are computed character by character.       *)
(* Numbers are held in hundredths (0.5 is 50, a Total Score of 1.18 is     *)
(* 118); a mean is the pair of the sum and the count of its terms, so      *)
(* means are compared exactly (the rounding error of a float mean is       *)
(* left out).  Of the document generate_pdf writes, the model keeps what   *)
(* it says about the artifacts: the order of the sections, the low-score   *)
(* note and the average row; the Role and Comments columns, the rater      *)
(* rows, fonts and page layout are left out.                               *)
(***************************************************************************)
EXTENDS Integers, Sequences, FiniteSets, TLC

VARIABLES
    row,            \* argument of a direct call of convert_to_score
    ret,            \* what that call returned (or that it raised)
    pc,             \* position of the script in the upload-to-report cycle
    exc,            \* where the script raised, "" while it has not
    df,             \* the uploaded sheet after normalisation (lines 222-254)
    result_df,      \* the scored table (lines 256-266)
    tmp_created,    \* a NamedTemporaryFile was created in this run
    tmp_exists,     \* the temporary PDF file is on disk
    report,         \* the sections generate_pdf wrote, in document order
    prd_summary     \* the on-screen summary table (lines 280-283)

vars == <<row, ret, pc, exc, df, result_df, tmp_created, tmp_exists, report, prd_summary>>

-----------------------------------------------------------------------------
(* Bounds of the model *)

\* rows of an uploaded sheet
MaxRows == 2
\* distinct artifact names a sheet may use
MaxPrds == 2

-----------------------------------------------------------------------------
(* Characters and Python's str methods *)

LowerAlpha == <<"a","b","c","d","e","f","g","h","i","j","k","l","m",
                "n","o","p","q","r","s","t","u","v","w","x","y","z">>
UpperAlpha == <<"A","B","C","D","E","F","G","H","I","J","K","L","M",
                "N","O","P","Q","R","S","T","U","V","W","X","Y","Z">>
DigitChars == <<"0","1","2","3","4","5","6","7","8","9">>

LowerSet == {LowerAlpha[i] : i \in 1..Len(LowerAlpha)}
UpperSet == {UpperAlpha[i] : i \in 1..Len(UpperAlpha)}
DigitSet == {DigitChars[i] : i \in 1..Len(DigitChars)}

\* the lower-case letter of each upper-case one, and the reverse
LowerOf == [c \in UpperSet |-> LowerAlpha[CHOOSE i \in 1..Len(UpperAlpha) : UpperAlpha[i] = c]]
UpperOf == [c \in LowerSet |-> UpperAlpha[CHOOSE i \in 1..Len(LowerAlpha) : LowerAlpha[i] = c]]
DigitValueOf == [c \in DigitSet |-> (CHOOSE i \in 1..Len(DigitChars) : DigitChars[i] = c) - 1]

IsCased(c) == c \in LowerSet \/ c \in UpperSet
IsDigit(c) == c \in DigitSet
IsSpace(c) == c = " "

ToLower(c) == IF c \in UpperSet THEN LowerOf[c] ELSE c
ToUpper(c) == IF c \in LowerSet THEN UpperOf[c] ELSE c
DigitValue(c) == DigitValueOf[c]

\* str.lower()
lower(s) == [i \in 1..Len(s) |-> ToLower(s[i])]

\* str.strip(): drops the leading and the trailing white space
strip(s) ==
    LET keep == {i \in 1..Len(s) : ~IsSpace(s[i])}
    IN  IF keep = {} THEN <<>>
        ELSE LET a == CHOOSE i \in keep : \A j \in keep : i <= j
                 b == CHOOSE i \in keep : \A j \in keep : j <= i
             IN  SubSeq(s, a, b)

\* str.title(): a cased character is upper-cased when it follows an uncased
\* one (or starts the text) and lower-cased otherwise
title(s) == [i \in 1..Len(s) |->
                IF i = 1 \/ ~IsCased(s[i - 1]) THEN ToUpper(s[i]) ELSE ToLower(s[i])]

\* decimal digits of a natural number
RECURSIVE Digits(_)
Digits(n) == IF n < 10 THEN <<DigitChars[n + 1]>>
             ELSE Digits(n \div 10) \o <<DigitChars[(n % 10) + 1]>>

\* repr of a float given in hundredths: 118 is "1.18", 1000 is "10.0", 50 is "0.5"
FormatFloat(h) ==
    Digits(h \div 100) \o <<".">> \o
    (IF h % 10 = 0 THEN <<DigitChars[((h % 100) \div 10) + 1]>>
     ELSE <<DigitChars[((h % 100) \div 10) + 1], DigitChars[(h % 10) + 1]>>)

\* f"{mapped}" of a value of score_map: the whole values are written as
\* Python ints there (0, 1, 2), the others as floats (0.5, 1.5)
FormatMapped(h) == IF h % 100 = 0 THEN Digits(h \div 100) ELSE FormatFloat(h)

-----------------------------------------------------------------------------
(* Cells: what a row holds for a key *)

StrCell(s) == [kind |-> "str", s |-> s, n |-> 0]
IntCell(n) == [kind |-> "int", s |-> <<>>, n |-> n]
NaNCell    == [kind |-> "nan", s |-> <<>>, n |-> 0]

\* str(val)
py_str(val) == CASE val.kind = "str" -> val.s
                 [] val.kind = "int" -> Digits(val.n)
                 [] OTHER            -> <<"n","a","n">>

\* row.get(key, '')
row_get(r, key) == IF key \in DOMAIN r THEN r[key] ELSE StrCell(<<>>)

-----------------------------------------------------------------------------
(* Configuration: lines 21-42 *)

\* list(weights.keys()): the canonical parameter order
weights_keys == <<"Scope", "Design Ready", "PRD Handover", "Req. changes", "Coverage", "Tech depth">>
ParamSet == {weights_keys[i] : i \in 1..Len(weights_keys)}

NotCovered       == <<"n","o","t"," ","c","o","v","e","r","e","d">>
PartiallyCovered == <<"p","a","r","t","i","a","l","l","y"," ","c","o","v","e","r","e","d">>
FullyCovered     == <<"f","u","l","l","y"," ","c","o","v","e","r","e","d">>
AnswerNo         == <<"n","o">>
AnswerYes        == <<"y","e","s">>
ChangedNTime     == <<"c","h","a","n","g","e","d"," ","n"," ","t","i","m","e">>
Changed1Time     == <<"c","h","a","n","g","e","d"," ","1"," ","t","i","m","e">>
NoChanges        == <<"n","o"," ","c","h","a","n","g","e","s">>
NotApplicable    == <<"n","o","t"," ","a","p","p","l","i","c","a","b","l","e">>
NA               == <<"N","/","A">>

\* faulty variant of score_map: Scope's highest category scores more than its weight
score_map_broken ==
    [p \in ParamSet |->
        CASE p = "Scope"        -> (NotCovered :> 0 @@ PartiallyCovered :> 50 @@ FullyCovered :> 150)
          [] p = "Design Ready" -> (NotCovered :> 0 @@ PartiallyCovered :> 50 @@ FullyCovered :> 150)
          [] p = "PRD Handover" -> (AnswerNo :> 0 @@ AnswerYes :> 150)
          [] p = "Req. changes" -> (ChangedNTime :> 0 @@ Changed1Time :> 50 @@ NoChanges :> 200)
          [] p = "Coverage"     -> (NotCovered :> 0 @@ PartiallyCovered :> 50 @@ FullyCovered :> 200)
          [] OTHER              -> (NotCovered :> 0 @@ PartiallyCovered :> 50 @@ FullyCovered :> 200)]

score_map ==
    [p \in ParamSet |->
        CASE p = "Scope"        -> (NotCovered :> 0 @@ PartiallyCovered :> 50 @@ FullyCovered :> 100)
          [] p = "Design Ready" -> (NotCovered :> 0 @@ PartiallyCovered :> 50 @@ FullyCovered :> 150)
          [] p = "PRD Handover" -> (AnswerNo :> 0 @@ AnswerYes :> 150)
          [] p = "Req. changes" -> (ChangedNTime :> 0 @@ Changed1Time :> 50 @@ NoChanges :> 200)
          [] p = "Coverage"     -> (NotCovered :> 0 @@ PartiallyCovered :> 50 @@ FullyCovered :> 200)
          [] OTHER              -> (NotCovered :> 0 @@ PartiallyCovered :> 50 @@ FullyCovered :> 200)]

weights ==
    [p \in ParamSet |->
        CASE p = "Scope"        -> 100
          [] p = "Design Ready" -> 150
          [] p = "PRD Handover" -> 150
          [] OTHER              -> 200]

RECURSIVE SetMax(_)
SetMax(S) == LET x == CHOOSE x \in S : TRUE
             IN  IF S = {x} THEN x
                 ELSE LET m == SetMax(S \ {x}) IN IF x > m THEN x ELSE m

\* param_max = {k: max(score_map[k].values()) for k in weights.keys()}
param_max == [p \in ParamSet |-> SetMax({score_map[p][c] : c \in DOMAIN score_map[p]})]

-----------------------------------------------------------------------------
(* convert_to_score: lines 44-60 *)

\* round(num / den, 0) as Python rounds a float: to the nearest integer, and
\* to the even one when num / den lies exactly half way (the only half-way
\* quotients of the configuration are multiples of 0.625, exact in binary)
round_half_even(num, den) ==
    LET q == num \div den
        r == num % den
    IN  IF 2 * r < den THEN q
        ELSE IF 2 * r > den THEN q + 1
        ELSE IF q % 2 = 0 THEN q ELSE q + 1

\* f"{val.title()} ({mapped})"
display_val(val, mapped) == title(val.s) \o <<" ", "(">> \o FormatMapped(mapped) \o <<")">>

Raised == [raised |-> TRUE, scores |-> <<>>, total |-> 0]

\* faulty variant of convert_loop: the weight of a "not applicable" parameter
\* is added to total_weight
RECURSIVE convert_loop_na_weighted(_, _, _, _, _)
convert_loop_na_weighted(r, i, scores, total_score, total_weight) ==
    IF i > Len(weights_keys)
    THEN [raised |-> FALSE, scores |-> scores,
          total  |-> IF total_weight # 0
                     THEN round_half_even(total_score * 1000, total_weight) ELSE 0]
    ELSE LET param_key      == weights_keys[i]
             val            == row_get(r, param_key)
             val_normalized == lower(strip(py_str(val)))
         IN  IF val_normalized = NotApplicable
             THEN convert_loop_na_weighted(r, i + 1, scores @@ (param_key :> NA),
                                           total_score, total_weight + weights[param_key])
             ELSE LET mapped == IF val_normalized \in DOMAIN score_map[param_key]
                                THEN score_map[param_key][val_normalized] ELSE 0
                  IN  IF val.kind # "str" THEN Raised
                      ELSE convert_loop_na_weighted(r, i + 1,
                                        scores @@ (param_key :> display_val(val, mapped)),
                                        total_score + mapped,
                                        total_weight + weights[param_key])

\* the loop of lines 48-58 from the i-th parameter on, then lines 59-60.
\* val.title() of line 55 raises AttributeError when val is not a str.
RECURSIVE convert_loop(_, _, _, _, _)
convert_loop(r, i, scores, total_score, total_weight) ==
    IF i > Len(weights_keys)
    THEN [raised |-> FALSE, scores |-> scores,
          total  |-> IF total_weight # 0
                     THEN round_half_even(total_score * 1000, total_weight) ELSE 0]
    ELSE LET param_key      == weights_keys[i]
             val            == row_get(r, param_key)
             val_normalized == lower(strip(py_str(val)))
         IN  IF val_normalized = NotApplicable
             THEN convert_loop(r, i + 1, scores @@ (param_key :> NA),
                               total_score, total_weight)
             ELSE LET mapped == IF val_normalized \in DOMAIN score_map[param_key]
                                THEN score_map[param_key][val_normalized] ELSE 0
                  IN  IF val.kind # "str" THEN Raised
                      ELSE convert_loop(r, i + 1,
                                        scores @@ (param_key :> display_val(val, mapped)),
                                        total_score + mapped,
                                        total_weight + weights[param_key])

convert_to_score(r) == convert_loop(r, 1, <<>>, 0, 0)

-----------------------------------------------------------------------------
(* Means, the severity classes and the parsing of display values *)

\* Series.mean() of a sequence of numbers with NaN (-1) skipped: the sum and
\* the count of the numbers; the mean of no number (n = 0) is NaN
NaN == -1
RECURSIVE mean(_)
mean(nums) ==
    IF nums = <<>> THEN [sum |-> 0, n |-> 0]
    ELSE LET m == mean(Tail(nums))
         IN  IF Head(nums) = NaN THEN m
             ELSE [sum |-> m.sum + Head(nums), n |-> m.n + 1]

\* pd.isna(avg_val)
isna(avg) == avg.n = 0

\* get_color_by_score of a mean: every comparison with NaN is false
get_color_by_score(score) ==
    IF isna(score) THEN "red"
    ELSE IF score.sum >= 800 * score.n THEN "green"
    ELSE IF 600 * score.n <= score.sum /\ score.sum < 800 * score.n THEN "orange"
    ELSE "red"

\* str.extract(r'([\d.]+)'): the leftmost longest run of digits and dots,
\* <<>> when the text has none
extract(s) ==
    LET hit == {i \in 1..Len(s) : IsDigit(s[i]) \/ s[i] = "."}
    IN  IF hit = {} THEN <<>>
        ELSE LET a == CHOOSE i \in hit : \A j \in hit : i <= j
                 b == CHOOSE i \in a..Len(s) :
                        /\ \A j \in a..i : j \in hit
                        /\ (i = Len(s) \/ (i + 1) \notin hit)
             IN  SubSeq(s, a, b)

RECURSIVE NatOf(_)
NatOf(ds) == IF ds = <<>> THEN 0
             ELSE 10 * NatOf(SubSeq(ds, 1, Len(ds) - 1)) + DigitValue(ds[Len(ds)])

\* pd.to_numeric(token, errors='coerce'), in hundredths: NaN for no match, for
\* a token without a digit and for one with two dots (decimals beyond the
\* second do not occur in the texts of the model and are dropped)
to_numeric(tok) ==
    LET dots == {i \in 1..Len(tok) : tok[i] = "."}
    IN  IF tok = <<>> \/ Cardinality(dots) > 1 \/ Cardinality(dots) = Len(tok) THEN NaN
        ELSE IF dots = {} THEN 100 * NatOf(tok)
        ELSE LET d    == CHOOSE i \in dots : TRUE
                 frac == SubSeq(tok, d + 1, Len(tok))
             IN  100 * NatOf(SubSeq(tok, 1, d - 1))
                 + (IF Len(frac) >= 1 THEN 10 * DigitValue(frac[1]) ELSE 0)
                 + (IF Len(frac) >= 2 THEN DigitValue(frac[2]) ELSE 0)

\* _avg_numeric_from_display of a column given as its texts
_avg_numeric_from_display(series) ==
    mean([i \in 1..Len(series) |-> to_numeric(extract(series[i]))])

-----------------------------------------------------------------------------
(* Grouping by artifact *)

\* code points order the characters that occur in artifact names
CharOrder == <<" ">> \o DigitChars \o UpperAlpha \o LowerAlpha
CharRank(c) == CHOOSE i \in 1..Len(CharOrder) : CharOrder[i] = c

\* s < t for Python strings
RECURSIVE str_less(_, _)
str_less(s, t) ==
    IF t = <<>> THEN FALSE
    ELSE IF s = <<>> THEN TRUE
    ELSE IF Head(s) = Head(t) THEN str_less(Tail(s), Tail(t))
    ELSE CharRank(Head(s)) < CharRank(Head(t))

\* data[data["PRD Name"] == prd_name]: the rows of the artifact, in input order
group_of(data, prd_name) == SelectSeq(data, LAMBDA r : r.prd = prd_name)

\* the 'Total Score' column of a frame
total_scores(data) == [i \in 1..Len(data) |-> data[i].total]

\* the column of a parameter, as texts
param_column(data, p) == [i \in 1..Len(data) |-> data[i].scores[p]]

\* the 'Total Score' column after astype(str); the column is float64 as soon
\* as one row has an answered parameter, which every sheet of the model has
total_column(data) == [i \in 1..Len(data) |-> FormatFloat(data[i].total)]

\* the sequences that list every element of S once
Orders(S) == {s \in [1..Cardinality(S) -> S] : \A i, j \in 1..Cardinality(S) : s[i] = s[j] => i = j}

\* the keys of data.groupby("PRD Name"): the distinct names, ascending
groupby_keys(data) ==
    LET names == {data[i].prd : i \in 1..Len(data)}
    IN  CHOOSE s \in Orders(names) : \A i, j \in 1..Len(s) : i < j => str_less(s[i], s[j])

\* data.groupby("PRD Name")["Total Score"].mean()
groupby_mean(data) ==
    LET keys == groupby_keys(data)
    IN  [i \in 1..Len(keys) |->
            [prd |-> keys[i], avg |-> mean(total_scores(group_of(data, keys[i])))]]

\* a <= b for two means that are numbers
mean_leq(a, b) == a.sum * b.n <= b.sum * a.n

\* faulty variant of sort_values: descending
sort_values_descending(series) ==
    {s \in Orders({series[i] : i \in 1..Len(series)}) :
        \A i, j \in 1..Len(s) : i < j => mean_leq(s[j].avg, s[i].avg)}

\* Series.sort_values(): the orders of the entries that ascend by value; the
\* default quicksort fixes no order among equal values
sort_values(series) ==
    {s \in Orders({series[i] : i \in 1..Len(series)}) :
        \A i, j \in 1..Len(s) : i < j => mean_leq(s[i].avg, s[j].avg)}

-----------------------------------------------------------------------------
(* _lowest_params_by_impact: lines 78-91 *)

\* (p, ratio) with ratio = avg_val / max_possible held as num / den
impact(group, p) ==
    LET avg_val      == _avg_numeric_from_display(param_column(group, p))
        max_possible == IF param_max[p] # 0 THEN param_max[p] ELSE 100
    IN  IF isna(avg_val) THEN [p |-> p, num |-> 0, den |-> max_possible]
        ELSE [p |-> p, num |-> avg_val.sum, den |-> avg_val.n * max_possible]

\* insertion of x behind every entry whose ratio is not above its own
RECURSIVE insert_by_ratio(_, _)
insert_by_ratio(sorted, x) ==
    IF sorted = <<>> THEN <<x>>
    ELSE IF Head(sorted).num * x.den <= x.num * Head(sorted).den
         THEN <<Head(sorted)>> \o insert_by_ratio(Tail(sorted), x)
         ELSE <<x>> \o sorted

\* scores.sort(key=lambda x: x[1]): list.sort is stable
RECURSIVE sort_by_ratio(_)
sort_by_ratio(scores) ==
    IF scores = <<>> THEN <<>>
    ELSE insert_by_ratio(sort_by_ratio(SubSeq(scores, 1, Len(scores) - 1)),
                         scores[Len(scores)])

top_k == 3

_lowest_params_by_impact(group) ==
    LET scores == sort_by_ratio([i \in 1..Len(weights_keys) |-> impact(group, weights_keys[i])])
        k      == IF Len(scores) < top_k THEN Len(scores) ELSE top_k
    IN  [i \in 1..k |-> scores[i].p]

-----------------------------------------------------------------------------
(* generate_pdf: lines 93-201 (what the document says; fonts, colours of the *)
(* layout, the rater rows and the comment blocks are left out)              *)

\* faulty variant of note_wanted: the note only below 6
note_wanted_below6(avg_score) == avg_score.sum < 600 * avg_score.n

\* line 126: if avg_score < 8
note_wanted(avg_score) == avg_score.sum < 800 * avg_score.n

\* one cell of the average row, lines 167-182
average_cell(group, col) ==
    LET avg_val == IF col = "Total Score"
                   THEN _avg_numeric_from_display(total_column(group))
                   ELSE _avg_numeric_from_display(param_column(group, col))
    IN  IF isna(avg_val) THEN [blank |-> TRUE, sum |-> 0, n |-> 0, fill |-> "plain"]
        ELSE [blank |-> FALSE, sum |-> avg_val.sum, n |-> avg_val.n,
              fill  |-> IF col = "Total Score" THEN get_color_by_score(avg_val) ELSE "plain"]

\* the section of one artifact, lines 117-199
section(data, prd_name) ==
    LET group     == group_of(data, prd_name)
        avg_score == mean(total_scores(group))
    IN  [prd         |-> prd_name,
         avg_score   |-> avg_score,
         note        |-> note_wanted(avg_score),
         low_params  |-> IF note_wanted(avg_score) THEN _lowest_params_by_impact(group) ELSE <<>>,
         average_row |-> [col \in ParamSet \cup {"Total Score"} |-> average_cell(group, col)]]

NoReport == [written |-> FALSE, overall_avg |-> [sum |-> 0, n |-> 0], color |-> "", sections |-> <<>>]

\* the documents generate_pdf may write for the frame: one per order that
\* sort_values may give the artifacts
generate_pdf(data) ==
    {[written     |-> TRUE,
      overall_avg |-> mean(total_scores(data)),
      color       |-> get_color_by_score(mean(total_scores(data))),
      sections    |-> [i \in 1..Len(sorted_prds) |-> section(data, sorted_prds[i].prd)]]
        : sorted_prds \in sort_values(groupby_mean(data))}

\* faulty variant of prd_summary_of: the rows in the order of sort_values
prd_summary_by_score(data) == CHOOSE s \in sort_values(groupby_mean(data)) : TRUE

\* lines 281-282: result_df.groupby("PRD Name")[["Total Score"]].mean().reset_index()
prd_summary_of(data) == groupby_mean(data)

-----------------------------------------------------------------------------
(* A direct call of convert_to_score on one row *)

NoCall == [state |-> "none", scores |-> <<>>, total |-> 0]

\* what a caller of convert_to_score(row) observes
call_convert_to_score(r) ==
    LET res == convert_to_score(r)
    IN  IF res.raised THEN [state |-> "raised", scores |-> <<>>, total |-> 0]
        ELSE [state |-> "returned", scores |-> res.scores, total |-> res.total]

\* the values a cell of the row may hold for parameter p: the categories of
\* score_map[p], the sentinel as a rater types it, an unrecognized text, a
\* number and an empty (NaN) cell
CellValues(p) ==
    {StrCell(c) : c \in DOMAIN score_map[p]}
    \cup {StrCell(<<" ","N","o","t"," ","A","p","p","l","i","c","a","b","l","e"," ">>),
          StrCell(<<"t","b","d">>), IntCell(7), NaNCell}

Absent == [kind |-> "absent", s |-> <<>>, n |-> 0]

\* position of a parameter in the canonical order
KeyIndex(p) == CHOOSE i \in 1..Len(weights_keys) : weights_keys[i] = p

\* a row from the cells chosen for the parameters in canonical order, Absent
\* meaning that the row has no such key
MakeRow(cells) ==
    [p \in {weights_keys[i] : i \in {j \in 1..Len(weights_keys) : cells[j] # Absent}}
        |-> cells[KeyIndex(p)]]

PipelineIdle ==
    /\ pc = "idle"
    /\ exc = ""
    /\ df = <<>>
    /\ result_df = <<>>
    /\ tmp_created = FALSE
    /\ tmp_exists = FALSE
    /\ report = NoReport
    /\ prd_summary = <<>>

InitScore ==
    /\ \E c1 \in CellValues(weights_keys[1]) \cup {Absent},
          c2 \in CellValues(weights_keys[2]) \cup {Absent},
          c3 \in CellValues(weights_keys[3]) \cup {Absent},
          c4 \in CellValues(weights_keys[4]) \cup {Absent},
          c5 \in CellValues(weights_keys[5]) \cup {Absent},
          c6 \in CellValues(weights_keys[6]) \cup {Absent} :
            row = MakeRow(<<c1, c2, c3, c4, c5, c6>>)
    /\ ret = NoCall
    /\ PipelineIdle

Call ==
    /\ ret.state = "none"
    /\ ret' = call_convert_to_score(row)
    /\ UNCHANGED <<row, pc, exc, df, result_df, tmp_created, tmp_exists, report, prd_summary>>

NextScore == Call

SpecScore == InitScore /\ [][NextScore]_vars

-----------------------------------------------------------------------------
(* The upload-to-report cycle of the script: lines 220-286 *)

\* the artifact names of the sheets, as typed
PrdNames == <<<<"B"," ">>, <<"A">>, <<"C">>>>

\* what a cell of the uploaded sheet may hold in the column of parameter p
SheetValues(p) ==
    CASE p = "Scope"        -> {StrCell(FullyCovered),
                                StrCell(<<" ","P","a","r","t","i","a","l","l","y"," ","C","o","v","e","r","e","d">>)}
      [] p = "Design Ready" -> {StrCell(<<"F","u","l","l","y"," ","C","o","v","e","r","e","d">>)}
      [] p = "PRD Handover" -> {StrCell(<<"Y","e","s">>),
                                StrCell(<<" ","N","o","t"," ","A","p","p","l","i","c","a","b","l","e"," ">>)}
      [] p = "Req. changes" -> {StrCell(NoChanges), StrCell(Changed1Time)}
      [] p = "Coverage"     -> {NaNCell}
      [] OTHER              -> {StrCell(FullyCovered)}

\* the rows a sheet is made of
SheetRows ==
    {[prd |-> PrdNames[k], cells |-> MakeRow(<<c1, c2, c3, c4, c5, c6>>)] :
        k \in 1..MaxPrds,
        c1 \in SheetValues(weights_keys[1]), c2 \in SheetValues(weights_keys[2]),
        c3 \in SheetValues(weights_keys[3]), c4 \in SheetValues(weights_keys[4]),
        c5 \in SheetValues(weights_keys[5]), c6 \in SheetValues(weights_keys[6])}

\* lines 237-242: the parameter columns become trimmed lower-case texts, the
\* artifact name a trimmed text
normalize(sheet_row) ==
    [prd   |-> strip(sheet_row.prd),
     cells |-> [p \in DOMAIN sheet_row.cells |->
                    StrCell(lower(strip(py_str(sheet_row.cells[p]))))]]

\* the rows of the sheets after lines 228-254
NormalizedRows == {normalize(r) : r \in SheetRows}

Init ==
    /\ row = <<>>
    /\ ret = NoCall
    /\ PipelineIdle

\* lines 220-254: a sheet is uploaded, read and normalised
Upload ==
    /\ pc = "idle"
    /\ \E n \in 0..MaxRows : df' \in [1..n -> NormalizedRows]
    /\ pc' = "normalized"
    /\ UNCHANGED <<row, ret, exc, result_df, tmp_created, tmp_exists, report, prd_summary>>

\* lines 256-266: every row is scored and the table of the scored rows is
\* built; the column selection of line 266 raises KeyError on the frame
\* without columns that no row leaves
ScoreRows ==
    /\ pc = "normalized"
    /\ LET scored == [i \in 1..Len(df) |-> convert_to_score(df[i].cells)]
       IN  IF \E i \in 1..Len(df) : scored[i].raised
           THEN /\ pc' = "raised" /\ exc' = "convert_to_score"
                /\ UNCHANGED result_df
           ELSE IF Len(df) = 0
           THEN /\ pc' = "raised" /\ exc' = "KeyError"
                /\ UNCHANGED result_df
           ELSE /\ pc' = "scored" /\ UNCHANGED exc
                /\ result_df' = [i \in 1..Len(df) |->
                                    [prd    |-> df[i].prd,
                                     scores |-> scored[i].scores,
                                     total  |-> scored[i].total]]
    /\ UNCHANGED <<row, ret, df, tmp_created, tmp_exists, report, prd_summary>>

\* line 268: tempfile.NamedTemporaryFile(delete=False, suffix=".pdf")
CreateTemp ==
    /\ pc = "scored"
    /\ tmp_created' = TRUE
    /\ tmp_exists' = TRUE
    /\ pc' = "tmp"
    /\ UNCHANGED <<row, ret, exc, df, result_df, report, prd_summary>>

\* line 269: generate_pdf(result_df, tmp.name) writes the document
GeneratePdf ==
    /\ pc = "tmp"
    /\ report' \in generate_pdf(result_df)
    /\ pc' = "pdf"
    /\ UNCHANGED <<row, ret, exc, df, result_df, tmp_created, tmp_exists, prd_summary>>

\* line 269: generate_pdf raises (pdf.image or pdf.output fail on the file
\* system); the with block closes the file, which delete=False keeps
GeneratePdfRaises ==
    /\ pc = "tmp"
    /\ pc' = "raised"
    /\ exc' = "generate_pdf"
    /\ UNCHANGED <<row, ret, df, result_df, tmp_created, tmp_exists, report, prd_summary>>

\* lines 270-277: the file is opened and handed to st.download_button
DownloadButton ==
    /\ pc = "pdf"
    /\ pc' = "handed"
    /\ UNCHANGED <<row, ret, exc, df, result_df, tmp_created, tmp_exists, report, prd_summary>>

\* lines 270-277: open or st.download_button raises
DownloadButtonRaises ==
    /\ pc = "pdf"
    /\ pc' = "raised"
    /\ exc' = "download_button"
    /\ UNCHANGED <<row, ret, df, result_df, tmp_created, tmp_exists, report, prd_summary>>

\* line 278: os.unlink(tmp.name)
Unlink ==
    /\ pc = "handed"
    /\ tmp_exists' = FALSE
    /\ pc' = "unlinked"
    /\ UNCHANGED <<row, ret, exc, df, result_df, tmp_created, report, prd_summary>>

\* lines 280-286: the summary table and the converted table are shown
Summary ==
    /\ pc = "unlinked"
    /\ prd_summary' = prd_summary_of(result_df)
    /\ pc' = "done"
    /\ UNCHANGED <<row, ret, exc, df, result_df, tmp_created, tmp_exists, report>>

Next ==
    \/ Upload
    \/ ScoreRows
    \/ CreateTemp
    \/ GeneratePdf
    \/ GeneratePdfRaises
    \/ DownloadButton
    \/ DownloadButtonRaises
    \/ Unlink
    \/ Summary

Spec == Init /\ [][Next]_vars

-----------------------------------------------------------------------------
(* Claims about convert_to_score, checked under SpecScore *)

RECURSIVE SumOver(_, _)
SumOver(S, f) == IF S = {} THEN 0
                 ELSE LET x == CHOOSE x \in S : TRUE IN f[x] + SumOver(S \ {x}, f)

\* every value the row holds is a text
TextRow(r) == \A p \in DOMAIN r : r[p].kind = "str"

\* the trimmed, lower-cased value a text row holds for p ('' for a missing key)
Trimmed(r, p) == lower(strip(IF p \in DOMAIN r THEN r[p].s ELSE <<>>))

\* the parameters of a text row that are not marked "not applicable"
Counted(r) == {p \in ParamSet : Trimmed(r, p) # NotApplicable}

\* S: the mapped category scores of the counted parameters
MappedSum(r) ==
    SumOver(Counted(r),
            [p \in ParamSet |-> IF Trimmed(r, p) \in DOMAIN score_map[p]
                                THEN score_map[p][Trimmed(r, p)] ELSE 0])

\* W: the weights of the counted parameters
WeightSum(r) == SumOver(Counted(r), weights)

\* t is num / den rounded to the nearest integer, half way to the even one
IsRounded(t, num, den) ==
    LET d == IF t * den >= num THEN t * den - num ELSE num - t * den
    IN  /\ 2 * d <= den
        /\ (2 * d = den => t % 2 = 0)

\* C1: for every row of texts, convert_to_score returns
\* Total Score = round(10 * S / W, 2), S the sum of the mapped scores and W the
\* sum of the weights over exactly the parameters whose trimmed, lower-cased
\* value is not "not applicable", and returns 0 when W = 0.
C1_TotalIsWeightedRatio ==
    (ret.state # "none" /\ TextRow(row)) =>
        /\ ret.state = "returned"
        /\ IF WeightSum(row) = 0 THEN ret.total = 0
           ELSE IsRounded(ret.total, 1000 * MappedSum(row), WeightSum(row))

\* the row of the spec's scenario: Scope fully covered, Design Ready not
\* covered, PRD Handover not applicable, the other three unanswered
ScenarioRow ==
    ("Scope" :> StrCell(FullyCovered)) @@ ("Design Ready" :> StrCell(NotCovered))
    @@ ("PRD Handover" :> StrCell(<<" ","N","o","t"," ","A","p","p","l","i","c","a","b","l","e"," ">>))

C1_Witness ==
    /\ row = ScenarioRow
    /\ ret.state = "returned"
    /\ ret.total = 118
    /\ WeightSum(row) = 850

\* every parameter answered with its highest-value category
AllHighest(r) ==
    /\ TextRow(r)
    /\ \A p \in ParamSet :
        /\ Trimmed(r, p) \in DOMAIN score_map[p]
        /\ \A c \in DOMAIN score_map[p] : score_map[p][c] <= score_map[p][Trimmed(r, p)]

\* C2: under the default configuration the Total Score that convert_to_score
\* returns lies in [0, 10], and it is exactly 10.00 when every parameter is
\* answered with its highest-value category.
C2_TotalWithinZeroTen ==
    ret.state = "returned" =>
        /\ 0 <= ret.total /\ ret.total <= 1000
        /\ (AllHighest(row) => ret.total = 1000)

C2_Witness ==
    /\ ret.state = "returned"
    /\ AllHighest(row)
    /\ ret.total = 1000

\* C3: convert_to_score never raises, whatever the row holds for a parameter.
C3_NeverRaises == ret.state # "raised"

-----------------------------------------------------------------------------
(* Claims about the report and the script, checked under Spec *)

\* the rows of the scored table that belong to an artifact
RowsOf(prd) == {i \in 1..Len(result_df) : result_df[i].prd = prd}

\* the distinct artifact identifiers of the scored table
Artifacts == {result_df[i].prd : i \in 1..Len(result_df)}

\* sum of the Total Scores of an artifact's rows; its group average is
\* TotalSum(prd) / Cardinality(RowsOf(prd))
TotalSum(prd) == SumOver(RowsOf(prd), [i \in 1..Len(result_df) |-> result_df[i].total])

\* avg(x) < avg(y) for two artifacts
AvgLess(x, y) == TotalSum(x) * Cardinality(RowsOf(y)) < TotalSum(y) * Cardinality(RowsOf(x))

\* C4: when the uploaded sheet has no rows the script does not raise.
C4_EmptySheetReports == (pc # "idle" /\ Len(df) = 0) => pc # "raised"

\* C5: once a run that created the temporary PDF file has ended, by reaching
\* its last line or by raising, the file no longer exists.
C5_TempFileRemoved == (pc \in {"done", "raised"} /\ tmp_created) => ~tmp_exists

\* C6: the document has one section per distinct artifact identifier, and the
\* section of an artifact with the smaller group average comes first.
C6_SectionsAscendByAverage ==
    report.written =>
        /\ Len(report.sections) = Cardinality(Artifacts)
        /\ {report.sections[i].prd : i \in 1..Len(report.sections)} = Artifacts
        /\ \A i, j \in 1..Len(report.sections) :
              AvgLess(report.sections[i].prd, report.sections[j].prd) => i < j

\* two sections whose order by average is the reverse of their order by name
C6_Witness ==
    /\ report.written
    /\ Len(report.sections) >= 2
    /\ AvgLess(report.sections[1].prd, report.sections[2].prd)
    /\ str_less(report.sections[2].prd, report.sections[1].prd)

\* C7 as stated: the summary table that ends the run lists the artifacts in
\* ascending order of their group average, the order of the document's sections.
C7_SummaryAscendsByAverage ==
    pc = "done" =>
        /\ Len(prd_summary) = Len(report.sections)
        /\ \A i, j \in 1..Len(prd_summary) :
              AvgLess(prd_summary[i].prd, prd_summary[j].prd) => i < j

\* C7 as amended: the summary table that ends the run has one row per distinct
\* artifact identifier, holding its group average, and its rows ascend by
\* artifact identifier.
C7_SummaryAscendsByName ==
    pc = "done" =>
        /\ Len(prd_summary) = Cardinality(Artifacts)
        /\ \A i \in 1..Len(prd_summary) :
              /\ prd_summary[i].prd \in Artifacts
              /\ prd_summary[i].avg.n = Cardinality(RowsOf(prd_summary[i].prd))
              /\ prd_summary[i].avg.sum = TotalSum(prd_summary[i].prd)
        /\ \A i, j \in 1..Len(prd_summary) :
              i < j => str_less(prd_summary[i].prd, prd_summary[j].prd)

\* a summary whose first row has the larger average
C7_Witness ==
    /\ pc = "done"
    /\ Len(prd_summary) >= 2
    /\ AvgLess(prd_summary[2].prd, prd_summary[1].prd)
    /\ report.sections[1].prd = prd_summary[2].prd

\* the rows of an artifact that answered parameter p (not "not applicable")
Answered(prd, p) == {i \in RowsOf(prd) : Trimmed(df[i].cells, p) # NotApplicable}

\* sum of the mapped numeric scores of those rows
AnsweredSum(prd, p) ==
    SumOver(Answered(prd, p),
            [i \in 1..Len(df) |-> IF Trimmed(df[i].cells, p) \in DOMAIN score_map[p]
                                  THEN score_map[p][Trimmed(df[i].cells, p)] ELSE 0])

\* C8: in the average row of every section the cell of a parameter is the
\* mean of the mapped numeric scores of the group's rows that answered it,
\* blank when no row did, and the Total Score cell is the group's mean Total
\* Score.
C8_AverageRowIsMeanOfScores ==
    report.written =>
        \A k \in 1..Len(report.sections) :
            LET sec == report.sections[k]
                tot == sec.average_row["Total Score"]
            IN  /\ \A p \in ParamSet :
                      LET cell == sec.average_row[p]
                      IN  IF Answered(sec.prd, p) = {} THEN cell.blank
                          ELSE /\ ~cell.blank
                               /\ cell.sum * Cardinality(Answered(sec.prd, p))
                                    = AnsweredSum(sec.prd, p) * cell.n
                /\ ~tot.blank
                /\ tot.sum * Cardinality(RowsOf(sec.prd)) = TotalSum(sec.prd) * tot.n

\* relative_score(p) <= relative_score(q) in the group of prd, the score of a
\* parameter that no row answered counting as 0
RelLeq(prd, p, q) ==
    LET np == IF Answered(prd, p) = {} THEN 1 ELSE Cardinality(Answered(prd, p))
        nq == IF Answered(prd, q) = {} THEN 1 ELSE Cardinality(Answered(prd, q))
    IN  AnsweredSum(prd, p) * nq * param_max[q] <= AnsweredSum(prd, q) * np * param_max[p]

\* p is named before q: smaller relative_score, or the same and earlier in
\* canonical order
Before(prd, p, q) ==
    \/ ~RelLeq(prd, q, p)
    \/ (RelLeq(prd, p, q) /\ RelLeq(prd, q, p) /\ KeyIndex(p) < KeyIndex(q))

\* C9: a low-score note names the top_k parameters of smallest relative_score,
\* in ascending relative_score, ties in canonical parameter order.
C9_NoteNamesLowestRelativeScores ==
    report.written =>
        \A k \in 1..Len(report.sections) :
            LET sec   == report.sections[k]
                named == {sec.low_params[i] : i \in 1..Len(sec.low_params)}
            IN  sec.note =>
                  /\ Len(sec.low_params) = top_k
                  /\ \A i, j \in 1..Len(sec.low_params) :
                        i < j => Before(sec.prd, sec.low_params[i], sec.low_params[j])
                  /\ \A p \in named : \A q \in ParamSet \ named : Before(sec.prd, p, q)

\* C10 as stated: a note is emitted only for a group whose average is below 6.
C10_NoteOnlyBelowSix ==
    report.written =>
        \A k \in 1..Len(report.sections) :
            report.sections[k].note =>
                TotalSum(report.sections[k].prd) < 600 * Cardinality(RowsOf(report.sections[k].prd))

\* C10 as amended: a note is emitted in a section exactly when the group
\* average is below 8, that is for the groups classified borderline or poor
\* and for no group classified good.
C10_NoteIffBelowEight ==
    report.written =>
        \A k \in 1..Len(report.sections) :
            LET sec == report.sections[k]
            IN  /\ sec.note <=> TotalSum(sec.prd) < 800 * Cardinality(RowsOf(sec.prd))
                /\ sec.note <=> sec.average_row["Total Score"].fill \in {"orange", "red"}

\* a note in the section of a group whose average is borderline
C10_Witness ==
    /\ report.written
    /\ \E k \in 1..Len(report.sections) :
          /\ report.sections[k].note
          /\ report.sections[k].average_row["Total Score"].fill = "orange"
          /\ TotalSum(report.sections[k].prd) >= 600 * Cardinality(RowsOf(report.sections[k].prd))

====
